---- MODULE Spec2Model ----
(***************************************************************************)
(* Model of SpectralRasterEnhancementAlgorithm.processAlgorithm            *)
(* (src/SpectralEnhancementAlgorithm.py): per-band radiometric enhancement *)
(* of a raster (linear percentile stretch, histogram equalization, gamma   *)
(* correction) written band by band to an 8-bit output dataset.            *)
(*                                                                         *)
(* Arrays are flattened row-major: a band of cols x rows pixels is a       *)
(* sequence of length cols*rows.  An optional value (Python None or a      *)
(* number) is a set with at most one element.  Real arithmetic is carried  *)
(* out exactly on scaled integers; the final astype(np.uint8) of a value   *)
(* inside [0,255] truncates toward zero.                                   *)
(***************************************************************************)
EXTENDS Integers, Sequences, FiniteSets, TLC

VARIABLES
    pc,            \* position in processAlgorithm: "start", "loop", "done"
    raster,        \* the input: layer present, openable, geometry
    method_index,  \* 0 linear stretch, 1 equalization, 2 gamma correction
    cut_percent,   \* percent, an integer here
    gamma,         \* <<numerator, denominator>> of the gamma value
    ds_open,       \* the input dataset ds is open
    out_ds,        \* the output dataset
    i,             \* loop variable: 1-based band index
    data,          \* raw samples of the band read last
    nodata,        \* its nodata value: {} (None) or {v}
    mask,          \* its nodata mask
    bands_read,    \* band indices on which ReadAsArray returned
    canceled,      \* feedback.isCanceled()
    feedback,      \* warnings (band indices), errors reported (kinds), completion
    invalid_fp,    \* the last enhancement divided by zero (0/0)
    result         \* "none", "path" ({OUTPUT_RASTER: path}), "empty" ({}), "raised"

vars == <<pc, raster, method_index, cut_percent, gamma, ds_open, out_ds, i,
          data, nodata, mask, bands_read, canceled, feedback, invalid_fp, result>>

----------------------------------------------------------------------------
(* Bounds of the model *)

\* cols * rows * bands of an input raster is at most MaxCells
MaxCells == 4

\* raw samples are 0..MaxVal, and 100 (the scenario range [0,100])
MaxVal == 1

PixelValues == (0 .. MaxVal) \cup {100}

NoDataValues == {{}, {0}, {1}}

GeoRefs == {<<"gt_a", "wkt_a">>, <<"gt_b", "wkt_b">>}

\* cut percentages: inside [0,50], and outside (the code does not check)
CutPercents == {0, 25, 50, -5, 75}

\* gamma values 1, 2, 1/2, and the non-positive 0 and -1
Gammas == {<<1, 1>>, <<2, 1>>, <<1, 2>>, <<0, 1>>, <<-1, 1>>}

----------------------------------------------------------------------------
(* Program constants *)

\* largest 8-bit sample, the scale factor of all three methods
MaxByte == 255

\* bins of np.histogram
NBins == 256

----------------------------------------------------------------------------
(* Arithmetic helpers *)

Min2(a, b) == IF a <= b THEN a ELSE b

Max2(a, b) == IF a >= b THEN a ELSE b

SetMin(S) == CHOOSE x \in S : \A y \in S : x <= y

SetMax(S) == CHOOSE x \in S : \A y \in S : x >= y

RECURSIVE Pow(_, _)
Pow(b, e) == IF e = 0 THEN 1 ELSE b * Pow(b, e - 1)

\* floor(n / d) for d /= 0, n/d >= 0
FloorDiv(n, d) == IF d < 0 THEN (-n) \div (-d) ELSE n \div d

----------------------------------------------------------------------------
(* Nodata mask (lines 147-153) *)

Pixels(d) == 1 .. Len(d)

\* variant: the nodata value is ignored
NoDataMask_Ignored(d, nd) == [p \in Pixels(d) |-> FALSE]

\* mask = (data == nodata), or all False when nodata is None
NoDataMask(d, nd) == [p \in Pixels(d) |-> d[p] \in nd]

\* positions of valid_data = data[~mask]
ValidPixels(d, m) == {p \in Pixels(d) : ~m[p]}

ValidValues(d, m) == {d[p] : p \in ValidPixels(d, m)}

----------------------------------------------------------------------------
(* Conversion of a float outside [0,255], or not finite, to uint8.  The C   *)
(* conversion behind astype(np.uint8) is undefined there: builds that      *)
(* truncate through a wider integer keep the low byte (0 for NaN and inf), *)
(* builds with saturating conversion give 255 (0 for NaN).                 *)

CastNotFinite == {0, MaxByte}

CastAbove(y) == {y % (MaxByte + 1), MaxByte}

----------------------------------------------------------------------------
(* Linear stretch (lines 161-168).  Percentiles are kept times 100.        *)

\* k-th smallest (1-based) of the valid samples
KthSmallest(d, m, k) ==
    CHOOSE v \in ValidValues(d, m) :
        /\ Cardinality({p \in ValidPixels(d, m) : d[p] < v}) < k
        /\ Cardinality({p \in ValidPixels(d, m) : d[p] <= v}) >= k

\* 100 * np.percentile(valid_data, q), linear interpolation between the
\* order statistics around the virtual index (n - 1) * q / 100
Percentile100(d, m, q) ==
    LET n  == Cardinality(ValidPixels(d, m))
        vi == (n - 1) * q
        lo == vi \div 100
        fr == vi % 100
        a  == KthSmallest(d, m, lo + 1)
        b  == KthSmallest(d, m, Min2(lo + 2, n))
    IN  100 * a + fr * (b - a)

\* np.percentile raises ValueError outside [0, 100]
PercentileRaises(cut) == cut < 0 \/ cut > 100

\* np.clip(x, lo, hi) = minimum(maximum(x, lo), hi)
Clip(x, lo, hi) == Min2(Max2(x, lo), hi)

\* n / d rounded to the nearest integer, halves to even, for n >= 0, d > 0
RoundDiv(n, d) ==
    LET q == n \div d
        r == n % d
    IN  IF 2 * r < d THEN q
        ELSE IF 2 * r > d THEN q + 1
        ELSE IF q % 2 = 0 THEN q ELSE q + 1

\* variant: the quotient is rounded, not truncated
StretchedBytes_Rounded(x, p_min100, p_max100) ==
    IF p_max100 = p_min100
    THEN CastNotFinite
    ELSE IF p_max100 < p_min100 THEN {MaxByte}
    ELSE {RoundDiv((Clip(100 * x, p_min100, p_max100) - p_min100) * MaxByte,
                   p_max100 - p_min100)}

\* ((clip(x) - p_min) / (p_max - p_min) * 255).astype(np.uint8): the set of
\* bytes the cast can give
StretchedBytes(x, p_min100, p_max100) ==
    IF p_max100 = p_min100
    THEN CastNotFinite
    ELSE {FloorDiv((Clip(100 * x, p_min100, p_max100) - p_min100) * MaxByte,
                   p_max100 - p_min100)}

LinearStretchBytes(d, m, cut, p) ==
    StretchedBytes(d[p], Percentile100(d, m, cut), Percentile100(d, m, 100 - cut))

\* p_max == p_min: 0/0 on every valid sample
LinearStretchInvalid(d, m, cut) ==
    Percentile100(d, m, cut) = Percentile100(d, m, 100 - cut)

----------------------------------------------------------------------------
(* Equalization (lines 170-185).  Histogram edges are kept times 2, bin     *)
(* centres times 1024, so that every quantity is an integer.               *)

\* <<2 * first edge, 2 * last edge>> of np.histogram(range=(min, max));
\* numpy widens an empty range by 0.5 on both sides
Edges2(d, m) ==
    LET lo == SetMin(ValidValues(d, m))
        hi == SetMax(ValidValues(d, m))
    IN  IF lo = hi THEN <<2 * lo - 1, 2 * hi + 1>> ELSE <<2 * lo, 2 * hi>>

\* bin of sample x (0-based); the last bin is closed on the right
BinIndex(e, x) ==
    Min2(NBins - 1, ((2 * x - e[1]) * NBins) \div (e[2] - e[1]))

\* variant: the histogram itself is used, the running sum is forgotten
Cumsum_NoSum(d, m, e, j) ==
    Cardinality({p \in ValidPixels(d, m) : BinIndex(e, d[p]) = j})

\* cdf[j] of cdf = hist.cumsum(): the samples in bins 0..j
Cumsum(d, m, e, j) ==
    Cardinality({p \in ValidPixels(d, m) : BinIndex(e, d[p]) <= j})

\* cdf[j] after rescaling and cdf.astype(np.uint8).  A running sum of counts
\* is non-decreasing: cdf.min() is its first entry, cdf.max() its last.
ScaledCdf(d, m, e, j) ==
    LET cdf_min == Cumsum(d, m, e, 0)
        cdf_max == Cumsum(d, m, e, NBins - 1)
    IN  IF cdf_max > cdf_min
        THEN ((Cumsum(d, m, e, j) - cdf_min) * MaxByte) \div (cdf_max - cdf_min)
        ELSE 0

\* 1024 * bins_center[j]
BinCenter1024(e, j) == 512 * e[1] + (2 * j + 1) * (e[2] - e[1])

\* np.interp(x, bins_center, cdf).astype(np.uint8): cdf[0] left of the first
\* centre, cdf[-1] from the last centre on, linear in between
InterpByte(d, m, e, x) ==
    LET w2 == 2 * (e[2] - e[1])
        j  == (1024 * x - BinCenter1024(e, 0)) \div w2
    IN  IF 1024 * x >= BinCenter1024(e, NBins - 1) THEN ScaledCdf(d, m, e, NBins - 1)
        ELSE IF 1024 * x < BinCenter1024(e, 0) THEN ScaledCdf(d, m, e, 0)
        ELSE LET lo == ScaledCdf(d, m, e, j)
                 hi == ScaledCdf(d, m, e, j + 1)
             IN  (lo * w2 + (hi - lo) * (1024 * x - BinCenter1024(e, j))) \div w2

\* equalized at valid position p
Equalized(d, m, p) == InterpByte(d, m, Edges2(d, m), d[p])

----------------------------------------------------------------------------
(* Gamma correction (lines 187-198).  gamma = g[1] / g[2], g[2] > 0.       *)

\* 1.0 / gamma raises ZeroDivisionError
GammaRaises(g) == g[1] = 0

\* norm = <<a, b>> meaning a / b: (x - min) / range, or 0 when range is 0
Norm(d, m, x) ==
    LET min_val == SetMin(ValidValues(d, m))
        max_val == SetMax(ValidValues(d, m))
        range_val == max_val - min_val
    IN  IF range_val = 0 THEN <<0, 1>> ELSE <<x - min_val, range_val>>

\* k / 255 <= (a/b)^(den/num), that is (k/255)^num <= (a/b)^den
BelowPower(k, a, b, num, den) ==
    Pow(k, num) * Pow(b, den) <= Pow(MaxByte, num) * Pow(a, den)

\* the largest k in lo..hi with BelowPower (it holds at lo), by bisection
RECURSIVE LargestBelow(_, _, _, _, _, _)
LargestBelow(lo, hi, a, b, num, den) ==
    IF lo = hi THEN lo
    ELSE LET mid == (lo + hi + 1) \div 2
         IN  IF BelowPower(mid, a, b, num, den)
             THEN LargestBelow(mid, hi, a, b, num, den)
             ELSE LargestBelow(lo, mid - 1, a, b, num, den)

\* floor(255 * (a/b)^(den/num)) for gamma = num/den > 0
PowerByte(a, b, num, den) == LargestBelow(0, MaxByte, a, b, num, den)

\* (np.power(norm, 1.0 / gamma) * 255).astype(np.uint8): the bytes the cast
\* can give
GammaBytes(nrm, g) ==
    LET a == nrm[1]
        b == nrm[2]
    IN  IF g[1] > 0 THEN {PowerByte(a, b, g[1], g[2])}
        ELSE IF a = 0 THEN CastNotFinite                    \* 0 ** negative = inf
        ELSE IF a = b THEN {MaxByte}                        \* 1 ** anything = 1
        ELSE IF g[1] = -1
             THEN CastAbove((MaxByte * Pow(b, g[2])) \div Pow(a, g[2]))
             ELSE 0 .. MaxByte

GammaCorrectedBytes(d, m, g, p) == GammaBytes(Norm(d, m, d[p]), g)

----------------------------------------------------------------------------
(* One band: output_data (lines 159-200) *)

\* the exception the method raises before anything is written
EnhanceError(method) == IF method = 0 THEN "ValueError" ELSE "ZeroDivisionError"

EnhanceRaises(method, cut, g) ==
    \/ method = 0 /\ PercentileRaises(cut)
    \/ method = 2 /\ GammaRaises(g)

\* the method computes 0/0
EnhanceInvalid(d, m, method, cut) ==
    method = 0 /\ LinearStretchInvalid(d, m, cut)

\* per position, the bytes output_data can hold there: zeros_like, then the
\* enhanced valid samples, then output_data[mask] = 0
OutputBytes(d, m, method, cut, g) ==
    [p \in Pixels(d) |->
        IF m[p] THEN {0}
        ELSE IF method = 0 THEN LinearStretchBytes(d, m, cut, p)
        ELSE IF method = 1 THEN {Equalized(d, m, p)}
        ELSE GammaCorrectedBytes(d, m, g, p)]

RECURSIVE ArraysOf(_, _)
ArraysOf(choices, n) ==
    IF n = 0 THEN {<<>>}
    ELSE {Append(s, b) : s \in ArraysOf(choices, n - 1), b \in choices[n]}

\* every output_data the band can produce
OutputData(d, m, method, cut, g) ==
    ArraysOf(OutputBytes(d, m, method, cut, g), Len(d))

----------------------------------------------------------------------------
(* Datasets *)

Zeros(n) == [p \in 1 .. n |-> 0]

NoDataset ==
    [created |-> FALSE, open |-> FALSE, cols |-> 0, rows |-> 0, bands |-> 0,
     geo |-> "", proj |-> "", pixels |-> <<>>, nodata |-> <<>>, written |-> {}]

\* variant: Create is called with rows and cols exchanged
CreateDataset_Swapped(r) ==
    [created |-> TRUE, open |-> TRUE,
     cols |-> r.RasterYSize, rows |-> r.RasterXSize, bands |-> r.RasterCount,
     geo |-> r.GeoTransform, proj |-> r.Projection,
     pixels |-> [b \in 1 .. r.RasterCount |-> Zeros(r.RasterXSize * r.RasterYSize)],
     nodata |-> [b \in 1 .. r.RasterCount |-> {}],
     written |-> {}]

\* driver.Create(output_path, cols, rows, band_count, GDT_Byte), then
\* SetGeoTransform and SetProjection (lines 131-135); a new band is zero
\* and has no nodata value
CreateDataset(r) ==
    [created |-> TRUE, open |-> TRUE,
     cols |-> r.RasterXSize, rows |-> r.RasterYSize, bands |-> r.RasterCount,
     geo |-> r.GeoTransform, proj |-> r.Projection,
     pixels |-> [b \in 1 .. r.RasterCount |-> Zeros(r.RasterXSize * r.RasterYSize)],
     nodata |-> [b \in 1 .. r.RasterCount |-> {}],
     written |-> {}]

\* WriteArray, SetNoDataValue(0), FlushCache on band b (lines 203-207)
WriteBandTo(o, b, output_data) ==
    [o EXCEPT !.pixels[b] = output_data, !.nodata[b] = {0},
              !.written = @ \cup {b}]

\* out_ds = None, or the local going out of scope
CloseDataset(o) == [o EXCEPT !.open = FALSE]

Rasters ==
    {[layer |-> l, opens |-> o, RasterCount |-> b, RasterXSize |-> c,
      RasterYSize |-> r, GeoTransform |-> g[1], Projection |-> g[2]] :
        l \in BOOLEAN, o \in BOOLEAN, b \in 0 .. MaxCells,
        c \in 1 .. MaxCells, r \in 1 .. MaxCells, g \in GeoRefs}

\* parameters as declared (lines 95-103): the parameter a method does not
\* use stays at its default
Parameters ==
    {<<0, c, <<1, 1>>>> : c \in CutPercents}
        \cup {<<1, 2, <<1, 1>>>>}
        \cup {<<2, 2, g>> : g \in Gammas}

----------------------------------------------------------------------------
(* processAlgorithm (lines 109-220) *)

Init ==
    /\ pc = "start"
    /\ raster \in {r \in Rasters :
                      /\ r.RasterXSize * r.RasterYSize * Max2(r.RasterCount, 1) <= MaxCells
                      /\ (~r.layer => r.opens)}
    /\ \E prm \in Parameters :
          /\ method_index = prm[1]
          /\ cut_percent = prm[2]
          /\ gamma = prm[3]
    /\ ds_open = FALSE
    /\ out_ds = NoDataset
    /\ i = 0
    /\ data = <<>>
    /\ nodata = {}
    /\ mask = <<>>
    /\ bands_read = {}
    /\ canceled = FALSE
    /\ feedback = [warnings |-> {}, errors |-> {}, complete |-> FALSE]
    /\ invalid_fp = FALSE
    /\ result = "none"

\* variant: the handler reports and then falls through to the normal return
ExceptReturn_FallsThrough(e) ==
    /\ pc' = "done"
    /\ result' = "path"
    /\ feedback' = [feedback EXCEPT !.errors = @ \cup {e}]
    /\ ds_open' = FALSE
    /\ out_ds' = [out_ds EXCEPT !.open = FALSE]

\* except Exception as e (lines 214-218): report str(e), return {}; both
\* locals go out of scope
ExceptReturn(e) ==
    /\ pc' = "done"
    /\ result' = "empty"
    /\ feedback' = [feedback EXCEPT !.errors = @ \cup {e}]
    /\ ds_open' = FALSE
    /\ out_ds' = CloseDataset(out_ds)

\* lines 209-212, 220
CloseReturn ==
    /\ pc' = "done"
    /\ result' = "path"
    /\ feedback' = [feedback EXCEPT !.complete = TRUE]
    /\ ds_open' = FALSE
    /\ out_ds' = CloseDataset(out_ds)

\* line 116-117: no layer, QgsProcessingException leaves processAlgorithm
InvalidLayer ==
    /\ pc = "start"
    /\ ~raster.layer
    /\ pc' = "done"
    /\ result' = "raised"
    /\ UNCHANGED <<raster, method_index, cut_percent, gamma, ds_open, out_ds, i,
                   data, nodata, mask, bands_read, canceled, feedback, invalid_fp>>

\* line 122-123: gdal.Open gives no dataset, ds.RasterCount raises
OpenFails ==
    /\ pc = "start"
    /\ raster.layer
    /\ ~raster.opens
    /\ ExceptReturn("AttributeError")
    /\ UNCHANGED <<raster, method_index, cut_percent, gamma, i,
                   data, nodata, mask, bands_read, canceled, invalid_fp>>

\* line 125-126
NoBands ==
    /\ pc = "start"
    /\ raster.layer
    /\ raster.opens
    /\ raster.RasterCount = 0
    /\ ExceptReturn("QgsProcessingException")
    /\ UNCHANGED <<raster, method_index, cut_percent, gamma, i,
                   data, nodata, mask, bands_read, canceled, invalid_fp>>

\* lines 122-138: open, create the output, enter the loop
CreateOutput ==
    /\ pc = "start"
    /\ raster.layer
    /\ raster.opens
    /\ raster.RasterCount > 0
    /\ ds_open' = TRUE
    /\ out_ds' = CreateDataset(raster)
    /\ i' = 1
    /\ pc' = "loop"
    /\ UNCHANGED <<raster, method_index, cut_percent, gamma,
                   data, nodata, mask, bands_read, canceled, feedback, invalid_fp,
                   result>>

\* the caller cancels while bands remain (a later cancel is never looked at)
Cancel ==
    /\ pc = "loop"
    /\ i <= raster.RasterCount
    /\ ~canceled
    /\ canceled' = TRUE
    /\ UNCHANGED <<pc, raster, method_index, cut_percent, gamma, ds_open, out_ds,
                   i, data, nodata, mask, bands_read, feedback, invalid_fp, result>>

\* variant: the flag is never looked at
IsCanceled_Never == FALSE

IsCanceled == canceled

InLoop == pc = "loop" /\ i <= raster.RasterCount

\* lines 139-140, then 209-220
CancelBreak ==
    /\ InLoop
    /\ IsCanceled
    /\ CloseReturn
    /\ UNCHANGED <<raster, method_index, cut_percent, gamma, i,
                   data, nodata, mask, bands_read, canceled, invalid_fp>>

\* lines 144-145 raise
ReadFail ==
    /\ InLoop
    /\ ~IsCanceled
    /\ ExceptReturn("ReadError")
    /\ UNCHANGED <<raster, method_index, cut_percent, gamma, i,
                   data, nodata, mask, bands_read, canceled, invalid_fp>>

\* the arrays ReadAsArray can return for this raster
BandArrays == [1 .. raster.RasterXSize * raster.RasterYSize -> PixelValues]

\* the band read at lines 144-153
ReadBand(d, nd) ==
    /\ data' = d
    /\ nodata' = nd
    /\ mask' = NoDataMask(d, nd)
    /\ bands_read' = bands_read \cup {i}

\* variant: an empty band ends the loop
SkipEmptyBand_Aborts ==
    /\ pc = "loop"
    /\ i <= raster.RasterCount
    /\ ~canceled
    /\ \E d \in [1 .. raster.RasterXSize * raster.RasterYSize -> PixelValues],
          nd \in NoDataValues :
        /\ data' = d
        /\ nodata' = nd
        /\ mask' = [p \in Pixels(d) |-> d[p] \in nd]
        /\ bands_read' = bands_read \cup {i}
        /\ \A p \in Pixels(d) : d[p] \in nd
        /\ feedback' = [feedback EXCEPT !.warnings = @ \cup {i}, !.complete = TRUE]
        /\ pc' = "done"
        /\ result' = "path"
        /\ ds_open' = FALSE
        /\ out_ds' = [out_ds EXCEPT !.open = FALSE]
        /\ UNCHANGED <<raster, method_index, cut_percent, gamma, i, canceled,
                       invalid_fp>>

\* lines 155-157: no valid sample, warn and continue
SkipEmptyBand ==
    /\ InLoop
    /\ ~IsCanceled
    /\ \E d \in BandArrays, nd \in NoDataValues :
        /\ ReadBand(d, nd)
        /\ ValidPixels(d, NoDataMask(d, nd)) = {}
        /\ feedback' = [feedback EXCEPT !.warnings = @ \cup {i}]
        /\ i' = i + 1
        /\ UNCHANGED <<pc, raster, method_index, cut_percent, gamma, ds_open,
                       out_ds, canceled, invalid_fp, result>>

\* lines 161-198 raise: the percentile of a cut outside [0,100], or 1.0 / 0
EnhanceFail ==
    /\ InLoop
    /\ ~IsCanceled
    /\ EnhanceRaises(method_index, cut_percent, gamma)
    /\ \E d \in BandArrays, nd \in NoDataValues :
        /\ ReadBand(d, nd)
        /\ ValidPixels(d, NoDataMask(d, nd)) /= {}
        /\ ExceptReturn(EnhanceError(method_index))
        /\ UNCHANGED <<raster, method_index, cut_percent, gamma, i, canceled,
                       invalid_fp>>

\* lines 203-207 raise: the band is enhanced, the write fails
WriteFail ==
    /\ InLoop
    /\ ~IsCanceled
    /\ ~EnhanceRaises(method_index, cut_percent, gamma)
    /\ \E d \in BandArrays, nd \in NoDataValues :
        /\ ReadBand(d, nd)
        /\ ValidPixels(d, NoDataMask(d, nd)) /= {}
        /\ invalid_fp' = EnhanceInvalid(d, NoDataMask(d, nd), method_index, cut_percent)
        /\ ExceptReturn("WriteError")
        /\ UNCHANGED <<raster, method_index, cut_percent, gamma, i, canceled>>

\* lines 142-207: read, enhance and write band i
WriteBand ==
    /\ InLoop
    /\ ~IsCanceled
    /\ ~EnhanceRaises(method_index, cut_percent, gamma)
    /\ \E d \in BandArrays, nd \in NoDataValues :
        /\ ReadBand(d, nd)
        /\ ValidPixels(d, NoDataMask(d, nd)) /= {}
        /\ invalid_fp' = EnhanceInvalid(d, NoDataMask(d, nd), method_index, cut_percent)
        /\ \E output_data \in OutputData(d, NoDataMask(d, nd), method_index,
                                         cut_percent, gamma) :
              out_ds' = WriteBandTo(out_ds, i, output_data)
        /\ i' = i + 1
        /\ UNCHANGED <<pc, raster, method_index, cut_percent, gamma, ds_open,
                       canceled, feedback, result>>

\* the loop is exhausted: lines 209-212, 220
Finish ==
    /\ pc = "loop"
    /\ i > raster.RasterCount
    /\ CloseReturn
    /\ UNCHANGED <<raster, method_index, cut_percent, gamma, i,
                   data, nodata, mask, bands_read, canceled, invalid_fp>>

Next ==
    \/ InvalidLayer
    \/ OpenFails
    \/ NoBands
    \/ CreateOutput
    \/ Cancel
    \/ CancelBreak
    \/ ReadFail
    \/ SkipEmptyBand
    \/ EnhanceFail
    \/ WriteFail
    \/ WriteBand
    \/ Finish

Spec == Init /\ [][Next]_vars

----------------------------------------------------------------------------
(* Vocabulary of the properties *)

Bands == 1 .. raster.RasterCount

\* bands are read in ascending order: the band held in data is the largest read
LastRead == SetMax(bands_read)

\* data is the input of a band that has been written
LastReadWritten == bands_read /= {} /\ LastRead \in out_ds.written

\* the written samples of the band held in data
Written == out_ds.pixels[LastRead]

Valid(p) == data[p] \notin nodata

ValidSamples == {data[p] : p \in {q \in Pixels(data) : Valid(q)}}

ConstantBand == Cardinality(ValidSamples) = 1

GammaPositive == gamma[1] > 0

CutInRange == cut_percent >= 0 /\ cut_percent <= 50

----------------------------------------------------------------------------
\* C1: in every written band, whatever the method, a position is masked
\* exactly when its raw value equals the band's nodata value (so none is
\* when the band has no nodata value), and every such position holds 0.
C1_NodataIsZero ==
    LastReadWritten =>
        \A p \in Pixels(data) :
            /\ mask[p] <=> data[p] \in nodata
            /\ (nodata = {} => ~mask[p])
            /\ (data[p] \in nodata => Written[p] = 0)

\* a written band with a masked position and a valid one enhanced to non-zero
C1_Witness ==
    /\ LastReadWritten
    /\ \E p, q \in Pixels(data) :
          /\ data[p] \in nodata
          /\ Valid(q)
          /\ Written[q] > 0

\* C2: a band with one valid value, under the declared parameter ranges, is
\* enhanced without dividing by zero and every valid sample is written as 0.
C2_ConstantBandIsZero ==
    (/\ LastReadWritten
     /\ ConstantBand
     /\ (method_index = 0 => CutInRange)
     /\ (method_index = 2 => GammaPositive))
        => /\ ~invalid_fp
           /\ \A p \in Pixels(data) : Valid(p) => Written[p] = 0

----------------------------------------------------------------------------
\* C3: a band with no valid sample is skipped with a warning: the step
\* writes nothing, reports no error and moves to the next band; a skipped
\* band is never written and stays zero; a run that is neither cancelled nor
\* failed has read every band, written exactly the bands not skipped, and
\* returns the output path.
C3_SkipStep ==
    (/\ InLoop
     /\ bands_read' /= bands_read
     /\ \A p \in Pixels(data') : mask'[p])
        => /\ feedback'.warnings = feedback.warnings \cup {i}
           /\ feedback'.errors = feedback.errors
           /\ out_ds' = out_ds
           /\ i' = i + 1
           /\ pc' = "loop"
           /\ result' = "none"

C3_SkippedStayZero ==
    \A b \in feedback.warnings :
        /\ b \notin out_ds.written
        /\ out_ds.pixels[b] = Zeros(raster.RasterXSize * raster.RasterYSize)

C3_RunCompletes ==
    (pc = "done" /\ out_ds.created /\ feedback.errors = {} /\ ~canceled)
        => /\ result = "path"
           /\ bands_read = Bands
           /\ out_ds.written = Bands \ feedback.warnings

\* C3: an all-nodata band is skipped with a warning and the run goes on to
\* its normal end (the three parts above)
C3_EmptyBandSkipped ==
    /\ [](C3_SkippedStayZero /\ C3_RunCompletes)
    /\ [][C3_SkipStep]_vars

\* a finished three-band run whose first band was skipped and whose later
\* bands were written
C3_Witness ==
    /\ pc = "done"
    /\ result = "path"
    /\ raster.RasterCount = 3
    /\ feedback.warnings = {1}
    /\ out_ds.written = {2, 3}

----------------------------------------------------------------------------
\* C4: with the flag set before band k the step reads no band, changes no
\* written sample, closes both datasets and returns the output path; in the
\* final state no band from k on has been read or written.
C4_BreakStep ==
    (InLoop /\ canceled)
        => /\ bands_read' = bands_read
           /\ out_ds'.pixels = out_ds.pixels
           /\ out_ds'.written = out_ds.written
           /\ pc' = "done"
           /\ result' = "path"
           /\ ~ds_open'
           /\ ~out_ds'.open

C4_AfterBreak ==
    (pc = "done" /\ canceled)
        => /\ result = "path"
           /\ feedback.errors = {}
           /\ ~ds_open
           /\ ~out_ds.open
           /\ \A b \in Bands :
                 b >= i => /\ b \notin bands_read
                           /\ b \notin out_ds.written
                           /\ out_ds.pixels[b] = Zeros(raster.RasterXSize * raster.RasterYSize)

\* C4: cancellation seen before band k stops the run there and still
\* closes both datasets (the two parts above)
C4_CancelStops ==
    /\ []C4_AfterBreak
    /\ [][C4_BreakStep]_vars

\* cancelled after band 1 of 3: band 1 is written, bands 2 and 3 are not
C4_Witness ==
    /\ pc = "done"
    /\ canceled
    /\ raster.RasterCount = 3
    /\ i = 2
    /\ out_ds.written = {1}
    /\ \E p \in Pixels(out_ds.pixels[1]) : out_ds.pixels[1][p] > 0

----------------------------------------------------------------------------
\* C5: a run on an invalid input (no layer, unopenable raster, no bands,
\* gamma <= 0, cut outside [0,50]) that meets no read or write failure ends
\* with an error and has created no output dataset.
InvalidInput ==
    \/ ~raster.layer
    \/ ~raster.opens
    \/ raster.RasterCount = 0
    \/ (method_index = 2 /\ ~GammaPositive)
    \/ (method_index = 0 /\ ~CutInRange)

\* C5: every validation failure ends the run with an error before the
\* output dataset is created
C5_ValidationBeforeCreate ==
    (pc = "done" /\ InvalidInput /\ feedback.errors \cap {"ReadError", "WriteError"} = {})
        => /\ result \in {"raised", "empty"}
           /\ ~out_ds.created
           /\ out_ds.written = {}

----------------------------------------------------------------------------
\* C6 as stated: with p_max > p_min every valid sample is written as the
\* rounded value of (clip(x) - low) / (high - low) * 255.
C6_LinearStretchRounds ==
    (/\ LastReadWritten
     /\ method_index = 0
     /\ CutInRange
     /\ Percentile100(data, mask, 100 - cut_percent) > Percentile100(data, mask, cut_percent))
        => \A p \in Pixels(data) :
              Valid(p) =>
                 LET low  == Percentile100(data, mask, cut_percent)
                     high == Percentile100(data, mask, 100 - cut_percent)
                 IN  Written[p] = RoundDiv((Clip(100 * data[p], low, high) - low) * MaxByte,
                                           high - low)

\* C6 amended: the written byte w is the quotient truncated, w <= q < w + 1
\* for q = (clip(x) - low) / (high - low) * 255; with a cut of 0, low and
\* high are the least and the greatest valid sample.
C6_LinearStretchTruncates ==
    (/\ LastReadWritten
     /\ method_index = 0
     /\ CutInRange
     /\ Percentile100(data, mask, 100 - cut_percent) > Percentile100(data, mask, cut_percent))
        => LET low  == Percentile100(data, mask, cut_percent)
               high == Percentile100(data, mask, 100 - cut_percent)
           IN  /\ (cut_percent = 0 => /\ low = 100 * SetMin(ValidSamples)
                                      /\ high = 100 * SetMax(ValidSamples))
               /\ \A p \in Pixels(data) :
                     Valid(p) =>
                        LET n == (Clip(100 * data[p], low, high) - low) * MaxByte
                        IN  /\ Written[p] * (high - low) <= n
                            /\ n < (Written[p] + 1) * (high - low)

\* cut 0 on valid samples spanning [0,100]: the sample 1 (2.55) is written 2
C6_Witness ==
    /\ LastReadWritten
    /\ method_index = 0
    /\ cut_percent = 0
    /\ ValidSamples = {0, 1, 100}
    /\ \E p \in Pixels(data) : data[p] = 1 /\ Valid(p) /\ Written[p] = 2
    /\ \E p \in Pixels(data) : data[p] = 100 /\ Valid(p) /\ Written[p] = MaxByte

----------------------------------------------------------------------------
\* C7: equalization is monotonic within a band: of two valid samples the
\* smaller is written no greater than the larger.
C7_EqualizationMonotonic ==
    (LastReadWritten /\ method_index = 1)
        => \A p, q \in Pixels(data) :
              (Valid(p) /\ Valid(q) /\ data[p] < data[q]) => Written[p] <= Written[q]

\* an equalized band with three distinct valid samples written at three
\* distinct levels
C7_Witness ==
    /\ LastReadWritten
    /\ method_index = 1
    /\ \E p, q, r \in Pixels(data) :
          /\ Valid(p) /\ Valid(q) /\ Valid(r)
          /\ data[p] < data[q] /\ data[q] < data[r]
          /\ Written[p] < Written[q] /\ Written[q] < Written[r]

----------------------------------------------------------------------------
\* C8: when a run that was not cancelled returns the output path, every
\* output band has nodata value 0, a skipped band included.
C8_EveryBandNodataZero ==
    (pc = "done" /\ result = "path" /\ ~canceled)
        => \A b \in Bands : out_ds.nodata[b] = {0}

----------------------------------------------------------------------------
\* C9: once created, the output dataset has the input's columns, rows, band
\* count, geotransform and projection, in every later state of the run.
C9_GeometryPreserved ==
    out_ds.created =>
        /\ out_ds.cols = raster.RasterXSize
        /\ out_ds.rows = raster.RasterYSize
        /\ out_ds.bands = raster.RasterCount
        /\ out_ds.geo = raster.GeoTransform
        /\ out_ds.proj = raster.Projection
        /\ Len(out_ds.pixels) = raster.RasterCount
        /\ \A b \in Bands : Len(out_ds.pixels[b]) = out_ds.cols * out_ds.rows

\* a finished run on a raster wider than high, with a band written, a band
\* skipped
C9_Witness ==
    /\ pc = "done"
    /\ out_ds.created
    /\ raster.RasterXSize > raster.RasterYSize
    /\ out_ds.written /= {}
    /\ feedback.warnings /= {}

----------------------------------------------------------------------------
\* C10: a failure raised on band k ends the run in that step: nothing
\* written is changed, both datasets are closed, the error is reported and
\* the result is the empty one, not the output path; no band after k is
\* read or written and band k is not written.
C10_FailStep ==
    (pc = "loop" /\ feedback'.errors /= feedback.errors)
        => /\ pc' = "done"
           /\ result' = "empty"
           /\ out_ds'.pixels = out_ds.pixels
           /\ out_ds'.written = out_ds.written
           /\ ~ds_open'
           /\ ~out_ds'.open

C10_AfterFailure ==
    (pc = "done" /\ out_ds.created /\ feedback.errors /= {})
        => /\ result = "empty"
           /\ ~feedback.complete
           /\ ~ds_open
           /\ ~out_ds.open
           /\ \A b \in Bands : b >= i => b \notin out_ds.written
           /\ \A b \in Bands : b > i => b \notin bands_read

\* C10: a failure on band k halts the run at once and is reported as an
\* error outcome (the two parts above)
C10_FailureHalts ==
    /\ []C10_AfterFailure
    /\ [][C10_FailStep]_vars

\* the write of band 2 of 3 fails after band 1 was written
C10_Witness ==
    /\ pc = "done"
    /\ feedback.errors = {"WriteError"}
    /\ raster.RasterCount = 3
    /\ i = 2
    /\ out_ds.written = {1}
    /\ bands_read = {1, 2}

====
